---- MODULE Spec2Model ----
(***************************************************************************)
(* Model of .local/bin/setup-nvim.ts: the Neovim configuration installer.  *)
(*                                                                         *)
(* The state is the part of the filesystem the script touches (the target  *)
(* directory ~/.config/nvim, the backup directory ~/.config/nvim.backup    *)
(* and ./deno-sample-project), the position of the single thread of        *)
(* control, and what the process has printed and returned.  The three      *)
(* directories are distinct paths, none inside another (the working       *)
(* directory is outside ~/.config), paths are POSIX paths, written as the  *)
(* sequence of their components relative to the directory they live in.    *)
(* Every I/O call may fail; a probe of an external tool and the lookup of  *)
(* the home directory are inputs drawn when the code performs them.        *)
(***************************************************************************)
EXTENDS Integers, Sequences, FiniteSets, TLC

VARIABLES pc, i, args, sampleEnabled, configDir, backupDir, projectDir,
          out, exitCode, thrownAt, handler, probed, runs, pre, prev

vars == <<pc, i, args, sampleEnabled, configDir, backupDir, projectDir,
          out, exitCode, thrownAt, handler, probed, runs, pre, prev>>

\* Number of invocations of the script that are followed.
MaxRuns == 2

----------------------------------------------------------------------------
\* Static data of the script

Flags == {"--help", "-h", "--dry-run", "--no-sample"}

\* Mutant: deno is probed before nvim.
ToolOrder_denoFirst == <<"deno", "nvim", "git">>

\* checkPrerequisites probes these, in this order.
ToolOrder == <<"nvim", "deno", "git">>

\* A probe launches and succeeds, fails to launch, or exits unsuccessfully.
ProbeOutcomes == {"ok", "nolaunch", "nonzero"}

\* getConfigFiles(): the list of (path, content, description), in order.
\* The content of an entry is written as the sequence of its pieces of text:
\* one token that stands for the literal of the entry.
getConfigFiles ==
  << [path |-> <<"init.lua">>, content |-> <<"text:init.lua">>,
      description |-> "Main Neovim configuration"],
     [path |-> <<"lua", "config", "options.lua">>, content |-> <<"text:options.lua">>,
      description |-> "Neovim options and settings"],
     [path |-> <<"lua", "config", "lazy.lua">>, content |-> <<"text:lazy.lua">>,
      description |-> "Lazy plugin manager setup"],
     [path |-> <<"lua", "config", "keymaps.lua">>, content |-> <<"text:keymaps.lua">>,
      description |-> "Key mappings and shortcuts"],
     [path |-> <<"lua", "plugins", "lsp.lua">>, content |-> <<"text:lsp.lua">>,
      description |-> "LSP configuration for Deno"],
     [path |-> <<"lua", "plugins", "completion.lua">>, content |-> <<"text:completion.lua">>,
      description |-> "Auto-completion setup"],
     [path |-> <<"lua", "plugins", "treesitter.lua">>, content |-> <<"text:treesitter.lua">>,
      description |-> "Treesitter syntax highlighting"],
     [path |-> <<"lua", "plugins", "telescope.lua">>, content |-> <<"text:telescope.lua">>,
      description |-> "Fuzzy finder and search"],
     [path |-> <<"lua", "plugins", "ui.lua">>, content |-> <<"text:ui.lua">>,
      description |-> "UI enhancements and theme"] >>

\* The three files createSampleDenoProject writes, in order.
sampleFiles ==
  << [path |-> <<"deno.json">>, content |-> <<"text:deno.json">>],
     [path |-> <<"main.ts">>, content |-> <<"text:main.ts">>],
     [path |-> <<"main_test.ts">>, content |-> <<"text:main_test.ts">>] >>

undoPath == <<"undo">>

----------------------------------------------------------------------------
\* The filesystem: a directory is absent, or holds files (path, content) and
\* sub-directories (paths), all relative to it.

Absent == [exists |-> FALSE, files |-> {}, dirs |-> {}]

Dir(files, dirs) == [exists |-> TRUE, files |-> files, dirs |-> dirs]

\* Mutant: the existence test answers yes for a path that is not there.
exists_always(d) == TRUE

\* exists(path) of std/fs
exists(d) == d.exists

\* fullPath.substring(0, fullPath.lastIndexOf("/")): the path without its
\* last component; the empty path is the base directory itself.
dirOf(p) == SubSeq(p, 1, Len(p) - 1)

\* Mutant: a non-recursive mkdir, which creates the last directory only.
ensureDir_leafOnly(d, p) ==
  [exists |-> TRUE, files |-> d.files, dirs |-> d.dirs \cup (IF p = <<>> THEN {} ELSE {p})]

\* ensureDir(join(base, p)): creates the directory and every missing ancestor,
\* the base directory included; succeeds silently when they exist.
ensureDir(d, p) ==
  [exists |-> TRUE, files |-> d.files,
   dirs |-> d.dirs \cup {SubSeq(p, 1, k) : k \in 1..Len(p)}]

\* Mutant: the old backup is left where it is.
remove_keeps(d) == d

\* Deno.remove(path, { recursive: true }): the directory and all below it go.
remove(d) == Absent

\* Deno.rename(src, dst) needs the source to exist and the destination to be
\* absent or an empty directory.
canRename(src, dst) == src.exists /\ (~dst.exists \/ (dst.files = {} /\ dst.dirs = {}))

\* Mutant: a copy instead of a move, the source stays.
renamed_copies(src, dst) == [src |-> src, dst |-> src]

\* Deno.rename(src, dst): the source is gone, the destination is what it was.
renamed(src, dst) == [src |-> Absent, dst |-> src]

\* Deno.writeTextFile needs the parent directory to exist.
canWrite(d, p) == d.exists /\ (dirOf(p) = <<>> \/ dirOf(p) \in d.dirs)

\* Mutant: the write appends to a file that is already there.
writeTextFile_appends(d, p, c) ==
  [d EXCEPT !.files = {f \in @ : f[1] # p}
                      \cup {<<p, (IF \E f \in d.files : f[1] = p
                                    THEN (CHOOSE f \in d.files : f[1] = p)[2] ELSE <<>>) \o c>>}]

\* Mutant: the write creates the file and leaves it empty.
writeTextFile_empty(d, p, c) ==
  [d EXCEPT !.files = {f \in @ : f[1] # p} \cup {<<p, <<>>>>}]

\* Deno.writeTextFile(join(base, p), c): creates or overwrites the file.
writeTextFile(d, p, c) ==
  [d EXCEPT !.files = {f \in @ : f[1] # p} \cup {<<p, c>>}]

\* A write that fails after the file was opened leaves it truncated.
truncated(d, p) == writeTextFile(d, p, <<>>)

\* The content of the file at p, as a set: empty when there is no such file.
contentAt(d, p) == {f[2] : f \in {g \in d.files : g[1] = p}}

\* Filesystem states a run may start from.
InitConfigDirs ==
  { Absent,
    Dir({}, {}),
    Dir({<<(<<"a.txt">>), <<"old:a.txt">>>>}, {}),
    Dir({<<(<<"init.lua">>), <<"old:init.lua">>>>, <<(<<"lua", "mine.lua">>), <<"old:mine.lua">>>>},
        {<<"lua">>}) }

InitBackupDirs ==
  { Absent,
    Dir({<<(<<"b.txt">>), <<"older:b.txt">>>>}, {}) }

InitProjectDirs ==
  { Absent,
    Dir({<<(<<"main.ts">>), <<"old:main.ts">>>>, <<(<<"notes.md">>), <<"old:notes.md">>>>}, {}) }

NoPrev == [valid |-> FALSE, sample |-> FALSE, config |-> Absent, project |-> Absent]

----------------------------------------------------------------------------
Init ==
  /\ pc = "idle"
  /\ i = 0
  /\ args = {}
  /\ sampleEnabled = TRUE
  /\ configDir \in InitConfigDirs
  /\ backupDir \in InitBackupDirs
  /\ projectDir \in InitProjectDirs
  /\ out = <<>>
  /\ exitCode = 0
  /\ thrownAt = "none"
  /\ handler = "none"
  /\ probed = <<>>
  /\ runs = 0
  /\ pre = [config |-> Absent, backup |-> Absent, project |-> Absent]
  /\ prev = NoPrev

\* The run that just ended was a complete installation.
installed == pc = "done" /\ exitCode = 0 /\ thrownAt = "none" /\ runs > 0
             /\ args \cap {"--help", "-h", "--dry-run"} = {}

\* The script is invoked with some arguments: a new process, nothing printed.
Launch ==
  /\ pc \in {"idle", "done"}
  /\ runs < MaxRuns
  /\ \E a \in SUBSET Flags : args' = a
  /\ pc' = "main"
  /\ runs' = runs + 1
  /\ i' = 0
  /\ sampleEnabled' = TRUE
  /\ out' = <<>>
  /\ exitCode' = 0
  /\ thrownAt' = "none"
  /\ handler' = "none"
  /\ probed' = <<>>
  /\ pre' = [config |-> configDir, backup |-> backupDir, project |-> projectDir]
  /\ prev' = IF installed
               THEN [valid |-> TRUE, sample |-> sampleEnabled,
                     config |-> configDir, project |-> projectDir]
               ELSE NoPrev
  /\ UNCHANGED <<configDir, backupDir, projectDir>>

----------------------------------------------------------------------------
\* main(): the flag handling before an installer exists

\* args.includes("--help") || args.includes("-h")
wantsHelp(a) == "--help" \in a \/ "-h" \in a

\* Mutant: --dry-run is honoured only as the sole argument.
wantsDryRun_alone(a) == a = {"--dry-run"}

\* args.includes("--dry-run")
wantsDryRun(a) == "--dry-run" \in a

\* Mutant: the override is never installed.
includeSample_always(a) == TRUE

\* !args.includes("--no-sample"): createSampleDenoProject is not overridden.
includeSample(a) == "--no-sample" \notin a

\* --help or -h: print the usage text and return.
MainHelp ==
  /\ pc = "main"
  /\ wantsHelp(args)
  /\ out' = Append(out, <<"usage">>)
  /\ pc' = "done"
  /\ exitCode' = 0
  /\ UNCHANGED <<i, args, sampleEnabled, configDir, backupDir, projectDir,
                 thrownAt, handler, probed, runs, pre, prev>>

\* --dry-run: print the plan and return.
MainDryRun ==
  /\ pc = "main"
  /\ ~wantsHelp(args)
  /\ wantsDryRun(args)
  /\ out' = out \o <<(<<"dry run">>), <<"would", "check tools">>,
                     <<"would", "backup">>, <<"would", "create configuration">>>>
                \o (IF includeSample(args)
                      THEN <<(<<"would", "create sample project">>)>> ELSE <<>>)
  /\ pc' = "done"
  /\ exitCode' = 0
  /\ UNCHANGED <<i, args, sampleEnabled, configDir, backupDir, projectDir,
                 thrownAt, handler, probed, runs, pre, prev>>

\* new NeovimSetup(), the --no-sample override, and the entry into run().
\* The constructor throws when neither HOME nor USERPROFILE is set; that
\* happens in main(), outside the try block of run(), so the runtime reports
\* the uncaught error and the process exits with status 1.
MainSetup ==
  /\ pc = "main"
  /\ ~wantsHelp(args)
  /\ ~wantsDryRun(args)
  /\ \E homeDir \in BOOLEAN :
       IF ~homeDir
         THEN /\ thrownAt' = "constructor"
              /\ handler' = "uncaught"
              /\ out' = Append(out, <<"error: Uncaught", "Could not determine home directory">>)
              /\ exitCode' = 1
              /\ pc' = "done"
              /\ UNCHANGED <<i, sampleEnabled>>
         ELSE /\ sampleEnabled' = includeSample(args)
              /\ out' = Append(out, <<"banner">>)
              /\ pc' = "prereq"
              /\ i' = 1
              /\ UNCHANGED <<thrownAt, handler, exitCode>>
  /\ UNCHANGED <<args, configDir, backupDir, projectDir, probed, runs, pre, prev>>

----------------------------------------------------------------------------
\* run(): the steps inside the try block

\* Mutant: the handler prints the message and returns without Deno.exit(1).
catch_exitsZero(step, message) ==
  /\ thrownAt' = step
  /\ handler' = "run.catch"
  /\ out' = Append(out, <<"Setup failed">> \o message)
  /\ exitCode' = 0
  /\ pc' = "done"
  /\ UNCHANGED <<i, args, sampleEnabled, runs, pre, prev>>

\* The catch block of run(): print "Setup failed: <message>" and Deno.exit(1).
\* It fixes every variable but the filesystem ones, which the throwing step sets.
catch(step, message) ==
  /\ thrownAt' = step
  /\ handler' = "run.catch"
  /\ out' = Append(out, <<"Setup failed">> \o message)
  /\ exitCode' = 1
  /\ pc' = "done"
  /\ UNCHANGED <<i, args, sampleEnabled, runs, pre, prev>>

\* Mutant: result.success is not looked at, only a launch failure counts.
probeSucceeded_launched(r) == r # "nolaunch"

\* A probe passes when the command launched and result.success holds; a
\* launch failure throws and lands in the same catch as the failed check.
probeSucceeded(r) == r = "ok"

\* checkPrerequisites(): one probe, "<tool> --version", of the i-th tool.
checkPrerequisites ==
  /\ pc = "prereq"
  /\ \E r \in ProbeOutcomes :
       /\ probed' = Append(probed, <<ToolOrder[i], r>>)
       /\ IF probeSucceeded(r)
            THEN /\ out' = Append(IF i = 1 THEN Append(out, <<"checking prerequisites">>) ELSE out,
                                  <<"found", ToolOrder[i]>>)
                 /\ IF i < Len(ToolOrder)
                      THEN i' = i + 1 /\ pc' = pc
                      ELSE i' = 0 /\ pc' = "backup"
                 /\ UNCHANGED <<thrownAt, handler, exitCode, args, sampleEnabled, runs, pre, prev>>
            ELSE catch("checkPrerequisites", <<"is not installed or not in PATH", ToolOrder[i]>>)
  /\ UNCHANGED <<configDir, backupDir, projectDir>>

\* backupExistingConfig(), up to the rename: nothing to do when the target
\* directory is absent; otherwise an existing backup is removed recursively.
\* A failing recursive removal leaves the backup as it was or already emptied.
backupExistingConfig ==
  /\ pc = "backup"
  /\ IF ~exists(configDir)
       THEN /\ pc' = "ensure"
            /\ UNCHANGED <<out, backupDir, thrownAt, handler, exitCode,
                           i, args, sampleEnabled, runs, pre, prev>>
       ELSE IF exists(backupDir)
         THEN \E r \in {"ok", "fails", "fails emptied"} :
                IF r = "ok"
                  THEN /\ backupDir' = remove(backupDir)
                       /\ out' = out \o <<(<<"backing up">>), <<"removing old backup">>>>
                       /\ pc' = "rename"
                       /\ UNCHANGED <<thrownAt, handler, exitCode,
                                      i, args, sampleEnabled, runs, pre, prev>>
                  ELSE /\ backupDir' = IF r = "fails" THEN backupDir ELSE Dir({}, {})
                       /\ catch("backupExistingConfig.remove", <<"remove failed">>)
         ELSE /\ out' = Append(out, <<"backing up">>)
              /\ pc' = "rename"
              /\ UNCHANGED <<backupDir, thrownAt, handler, exitCode,
                             i, args, sampleEnabled, runs, pre, prev>>
  /\ UNCHANGED <<configDir, projectDir, probed>>

\* Mutant: a failed rename is logged and the run goes on without a backup.
renameToBackup_swallows ==
  /\ pc = "rename"
  /\ \E r \in {"ok", "fails"} :
       IF r = "ok" /\ canRename(configDir, backupDir)
         THEN /\ backupDir' = renamed(configDir, backupDir).dst
              /\ configDir' = renamed(configDir, backupDir).src
              /\ out' = Append(out, <<"backed up to", "nvim.backup">>)
         ELSE /\ UNCHANGED <<configDir, backupDir>>
              /\ out' = Append(out, <<"warning", "backup failed">>)
  /\ pc' = "ensure"
  /\ UNCHANGED <<thrownAt, handler, exitCode, i, args, sampleEnabled, runs, pre, prev,
                 projectDir, probed>>

\* backupExistingConfig(): Deno.rename(configDir, backupDir).
renameToBackup ==
  /\ pc = "rename"
  /\ \E r \in {"ok", "fails"} :
       IF r = "ok" /\ canRename(configDir, backupDir)
         THEN /\ backupDir' = renamed(configDir, backupDir).dst
              /\ configDir' = renamed(configDir, backupDir).src
              /\ out' = Append(out, <<"backed up to", "nvim.backup">>)
              /\ pc' = "ensure"
              /\ UNCHANGED <<thrownAt, handler, exitCode,
                             i, args, sampleEnabled, runs, pre, prev>>
         ELSE /\ UNCHANGED <<configDir, backupDir>>
              /\ catch("backupExistingConfig.rename", <<"rename failed">>)
  /\ UNCHANGED <<projectDir, probed>>

\* Mutant: createConfigFiles() is called without await, so run() goes on to
\* the sample project while no config file has been written.
ensureConfigDir_noAwait ==
  /\ pc = "ensure"
  /\ \E r \in {"ok", "fails"} :
       IF r = "ok"
         THEN /\ configDir' = ensureDir(configDir, <<>>)
              /\ pc' = "sample"
              /\ i' = 0
              /\ UNCHANGED <<out, thrownAt, handler, exitCode,
                             args, sampleEnabled, runs, pre, prev>>
         ELSE /\ UNCHANGED configDir
              /\ catch("run.ensureDir", <<"mkdir failed">>)
  /\ UNCHANGED <<backupDir, projectDir, probed>>

\* run(): ensureDir(this.configDir)
ensureConfigDir ==
  /\ pc = "ensure"
  /\ \E r \in {"ok", "fails"} :
       IF r = "ok"
         THEN /\ configDir' = ensureDir(configDir, <<>>)
              /\ pc' = "files"
              /\ i' = 1
              /\ UNCHANGED <<out, thrownAt, handler, exitCode,
                             args, sampleEnabled, runs, pre, prev>>
         ELSE /\ UNCHANGED configDir
              /\ catch("run.ensureDir", <<"mkdir failed">>)
  /\ UNCHANGED <<backupDir, projectDir, probed>>

\* The directory the i-th entry is written into, created with its ancestors.
withDirOf(d, f) == ensureDir(d, dirOf(f.path))

\* createConfigFiles(): one iteration of the loop, for the i-th entry:
\* ensureDir of the entry's directory, then writeTextFile of its content.
createConfigFiles ==
  /\ pc = "files"
  /\ LET f == getConfigFiles[i]
         d == withDirOf(configDir, f)
         o == IF i = 1 THEN Append(out, <<"creating configuration files">>) ELSE out
     IN \E r \in {"ok", "ensureDir fails", "write fails", "write fails truncated"} :
          IF r = "ensureDir fails"
            THEN /\ UNCHANGED configDir
                 /\ catch("createConfigFiles", <<"mkdir failed">>)
            ELSE IF r = "ok" /\ canWrite(d, f.path)
              THEN /\ configDir' = writeTextFile(d, f.path, f.content)
                   /\ out' = Append(o, <<"created", f.description>>)
                   /\ IF i < Len(getConfigFiles)
                        THEN i' = i + 1 /\ pc' = pc
                        ELSE i' = 0 /\ pc' = "undo"
                   /\ UNCHANGED <<thrownAt, handler, exitCode,
                                  args, sampleEnabled, runs, pre, prev>>
              ELSE /\ configDir' = IF r = "write fails truncated" /\ canWrite(d, f.path)
                                     THEN truncated(d, f.path) ELSE d
                   /\ catch("createConfigFiles", <<"write failed">>)
  /\ UNCHANGED <<backupDir, projectDir, probed>>

\* createConfigFiles(): ensureDir(join(this.configDir, "undo"))
createUndoDir ==
  /\ pc = "undo"
  /\ \E r \in {"ok", "fails"} :
       IF r = "ok"
         THEN /\ configDir' = ensureDir(configDir, undoPath)
              /\ out' = Append(out, <<"created undo directory">>)
              /\ pc' = "sample"
              /\ i' = 0
              /\ UNCHANGED <<thrownAt, handler, exitCode,
                             args, sampleEnabled, runs, pre, prev>>
         ELSE /\ UNCHANGED configDir
              /\ catch("createConfigFiles", <<"mkdir failed">>)
  /\ UNCHANGED <<backupDir, projectDir, probed>>

\* The replacement main() installs for createSampleDenoProject on --no-sample.
skipSampleProject ==
  /\ pc = "sample"
  /\ ~sampleEnabled
  /\ out' = Append(out, <<"skipping sample project">>)
  /\ pc' = "report"
  /\ UNCHANGED <<i, args, sampleEnabled, configDir, backupDir, projectDir,
                 exitCode, thrownAt, handler, probed, runs, pre, prev>>

\* createSampleDenoProject(): ensureDir(projectDir), then one writeTextFile
\* per step for deno.json, main.ts and main_test.ts.
createSampleDenoProject ==
  /\ pc = "sample"
  /\ sampleEnabled
  /\ IF i = 0
       THEN \E r \in {"ok", "fails"} :
              IF r = "ok"
                THEN /\ projectDir' = ensureDir(projectDir, <<>>)
                     /\ out' = Append(out, <<"creating sample project">>)
                     /\ i' = 1
                     /\ UNCHANGED <<pc, thrownAt, handler, exitCode,
                                    args, sampleEnabled, runs, pre, prev>>
                ELSE /\ UNCHANGED projectDir
                     /\ catch("createSampleDenoProject", <<"mkdir failed">>)
       ELSE LET f == sampleFiles[i]
            IN \E r \in {"ok", "write fails", "write fails truncated"} :
                 IF r = "ok" /\ canWrite(projectDir, f.path)
                   THEN /\ projectDir' = writeTextFile(projectDir, f.path, f.content)
                        /\ IF i < Len(sampleFiles)
                             THEN i' = i + 1 /\ pc' = pc /\ out' = out
                             ELSE /\ i' = 0
                                  /\ pc' = "report"
                                  /\ out' = Append(out, <<"sample project created">>)
                        /\ UNCHANGED <<thrownAt, handler, exitCode,
                                       args, sampleEnabled, runs, pre, prev>>
                   ELSE /\ projectDir' = IF r = "write fails truncated" /\ canWrite(projectDir, f.path)
                                           THEN truncated(projectDir, f.path) ELSE projectDir
                        /\ catch("createSampleDenoProject", <<"write failed">>)
  /\ UNCHANGED <<configDir, backupDir, probed>>

\* Mutant: the backup notice is printed when this run made the backup.
printUsageInstructions_ownBackup ==
  /\ pc = "report"
  /\ out' = out \o <<(<<"setup complete">>)>>
                \o (IF pre.config.exists
                      THEN <<(<<"previous configuration was backed up to", "nvim.backup">>)>>
                      ELSE <<>>)
                \o <<(<<"tips">>)>>
  /\ pc' = "done"
  /\ exitCode' = 0
  /\ UNCHANGED <<i, args, sampleEnabled, configDir, backupDir, projectDir,
                 thrownAt, handler, probed, runs, pre, prev>>

\* printUsageInstructions(), then run() and main() return: exit status 0.
\* The backup notice is printed when the backup directory exists now.  (The
\* source awaits exists(this.backupDir) in this method, which is not declared
\* async; the condition is taken to be the awaited value.)
printUsageInstructions ==
  /\ pc = "report"
  /\ out' = out \o <<(<<"setup complete">>)>>
                \o (IF exists(backupDir)
                      THEN <<(<<"previous configuration was backed up to", "nvim.backup">>)>>
                      ELSE <<>>)
                \o <<(<<"tips">>)>>
  /\ pc' = "done"
  /\ exitCode' = 0
  /\ UNCHANGED <<i, args, sampleEnabled, configDir, backupDir, projectDir,
                 thrownAt, handler, probed, runs, pre, prev>>

Next ==
  \/ Launch
  \/ MainHelp
  \/ MainDryRun
  \/ MainSetup
  \/ checkPrerequisites
  \/ backupExistingConfig
  \/ renameToBackup
  \/ ensureConfigDir
  \/ createConfigFiles
  \/ createUndoDir
  \/ skipSampleProject
  \/ createSampleDenoProject
  \/ printUsageInstructions

Spec == Init /\ [][Next]_vars

----------------------------------------------------------------------------
\* Properties

\* The filesystem is as it was when the current run was launched.
fsUnchanged ==
  configDir = pre.config /\ backupDir = pre.backup /\ projectDir = pre.project

\* Every entry of getConfigFiles() is in d with exactly its content.
populated(d) ==
  /\ d.exists
  /\ \A k \in 1..Len(getConfigFiles) :
       contentAt(d, getConfigFiles[k].path) = {getConfigFiles[k].content}

\* Every directory above an entry of getConfigFiles() is in d.
intermediateDirs ==
  UNION { {SubSeq(getConfigFiles[k].path, 1, n) : n \in 1..(Len(getConfigFiles[k].path) - 1)}
          : k \in 1..Len(getConfigFiles) }

\* The target directory a complete installation leaves: the entries of
\* getConfigFiles(), their directories and the undo directory, nothing else.
freshConfig ==
  Dir({<<getConfigFiles[k].path, getConfigFiles[k].content>> : k \in 1..Len(getConfigFiles)},
      intermediateDirs \cup {undoPath})

\* Some probe of the current run did not succeed.
someToolFailed == \E k \in 1..Len(probed) : probed[k][2] # "ok"

\* C1: when one of the probes of nvim, deno and git cannot be launched or
\* exits unsuccessfully, the run has ended with a non-zero exit status and the
\* target, backup and sample-project directories are as they were before it.
C1_PrerequisiteGate ==
  someToolFailed => (pc = "done" /\ exitCode # 0 /\ fsUnchanged)

\* A run over an existing target directory and backup whose last probe
\* (git) exited unsuccessfully.
C1_Witness ==
  /\ Len(probed) = 3 /\ probed[3] = <<"git", "nonzero">>
  /\ pc = "done" /\ exitCode = 1
  /\ pre.config.exists /\ pre.backup.exists

\* C2: when the target directory existed before the run and no backup did, a
\* complete run leaves the prior content in the backup directory and only the
\* newly written files in the target directory; when the backup step has
\* ended, the target directory does not exist.
C2_BackupOfPriorConfig ==
  /\ (installed /\ pre.config.exists /\ ~pre.backup.exists)
       => (backupDir = pre.config /\ configDir = freshConfig)
  /\ (pc = "ensure" /\ pre.config.exists) => ~exists(configDir)

\* A complete run that started with a.txt in the target directory and no backup.
C2_Witness ==
  /\ installed
  /\ ~pre.backup.exists
  /\ contentAt(pre.config, <<"a.txt">>) = {<<"old:a.txt">>}
  /\ contentAt(backupDir, <<"a.txt">>) = {<<"old:a.txt">>}
  /\ contentAt(configDir, <<"a.txt">>) = {}

\* C3: when the target directory and a backup both existed before the run, the
\* old backup is gone when the rename starts, and a complete run leaves in the
\* backup directory exactly the prior content of the target directory.
C3_OneBackupGeneration ==
  /\ (pc = "rename" /\ pre.backup.exists) => backupDir = Absent
  /\ (installed /\ pre.config.exists /\ pre.backup.exists) => backupDir = pre.config

\* A complete run over a target directory and an old backup holding b.txt.
C3_Witness ==
  /\ installed
  /\ pre.config.exists
  /\ contentAt(pre.backup, <<"b.txt">>) = {<<"older:b.txt">>}
  /\ contentAt(backupDir, <<"b.txt">>) = {}
  /\ backupDir = pre.config

\* C4: when the target directory did not exist before the run, the backup path
\* is, throughout the run and after it, as it was before the run.
C4_NoTargetNoBackupAction ==
  (runs > 0 /\ ~pre.config.exists) => backupDir = pre.backup

\* The backup step of a run without a target directory has been passed, with
\* a backup left by an earlier run in place.
C4_Witness ==
  /\ ~pre.config.exists /\ pre.backup.exists
  /\ pc = "done" /\ installed
  /\ backupDir = pre.backup

\* C5 as stated: a complete run that started without a target directory
\* leaves every entry in the target directory and no backup directory.
C5_Original ==
  (installed /\ ~pre.config.exists) => (populated(configDir) /\ ~exists(backupDir))

\* C5 amended: a complete run that started without a target directory leaves
\* every entry in the target directory and the backup path as it was before
\* the run, so that no backup directory exists afterward when none did before.
C5_FreshInstall ==
  (installed /\ ~pre.config.exists)
    => /\ populated(configDir)
       /\ backupDir = pre.backup
       /\ (~pre.backup.exists => ~exists(backupDir))

\* A complete run that started with neither a target nor a backup directory.
C5_Witness ==
  /\ installed
  /\ ~pre.config.exists /\ ~pre.backup.exists
  /\ populated(configDir) /\ ~exists(backupDir)

\* createConfigFiles of the current run has returned without an error.
materialized ==
  \/ pc \in {"sample", "report"}
  \/ installed
  \/ (pc = "done" /\ thrownAt = "createSampleDenoProject")

\* C6: once createConfigFiles has returned, every path of the list holds
\* exactly the content of its entry, every directory above such a path exists,
\* and the undo directory exists in the target directory.
C6_WriteFidelity ==
  materialized
    => /\ populated(configDir)
       /\ intermediateDirs \subseteq configDir.dirs
       /\ undoPath \in configDir.dirs

\* createConfigFiles has just returned in a run whose prior target directory
\* held another init.lua.
C6_Witness ==
  /\ pc = "sample" /\ i = 0
  /\ contentAt(pre.config, <<"init.lua">>) = {<<"old:init.lua">>}
  /\ contentAt(configDir, <<"init.lua">>) = {<<"text:init.lua">>}

\* C7: when a complete installation directly follows a complete installation
\* made with the same arguments, the target and sample-project directories
\* end as the first one left them, and the backup directory holds the target
\* directory as the first one left it.
C7_Idempotence ==
  (installed /\ prev.valid /\ prev.sample = sampleEnabled)
    => /\ configDir = prev.config
       /\ projectDir = prev.project
       /\ backupDir = prev.config

\* Two complete installations in a row, with the sample project, over a
\* sample-project directory that already held a main.ts.
C7_Witness ==
  /\ installed /\ prev.valid /\ prev.sample /\ sampleEnabled
  /\ runs = 2
  /\ contentAt(projectDir, <<"notes.md">>) = {<<"old:notes.md">>}
  /\ contentAt(projectDir, <<"main.ts">>) = {<<"text:main.ts">>}
  /\ backupDir = freshConfig

\* C8: with --help, -h or --dry-run among the arguments the run goes from
\* main() straight to its end: exit status zero, the filesystem unchanged, no
\* tool probed, no installer constructed and no step of run() entered.
C8_HelpAndDryRunAreInert ==
  (runs > 0 /\ args \cap {"--help", "-h", "--dry-run"} # {})
    => /\ pc \in {"main", "done"}
       /\ exitCode = 0
       /\ fsUnchanged
       /\ probed = <<>>
       /\ thrownAt = "none" /\ handler = "none"
       /\ \A k \in 1..Len(out) : out[k][1] \in {"usage", "dry run", "would"}

\* A finished --dry-run given together with --no-sample, over an existing
\* target directory.
C8_Witness ==
  /\ pc = "done" /\ exitCode = 0
  /\ args = {"--dry-run", "--no-sample"}
  /\ pre.config.exists
  /\ Len(out) = 4

\* The files of the sample project are in d with their content.
samplePresent(d) ==
  /\ d.exists
  /\ \A k \in 1..Len(sampleFiles) :
       contentAt(d, sampleFiles[k].path) = {sampleFiles[k].content}

\* What the steps before the sample project leave of the target and backup
\* directories in a complete run, whatever the arguments.
installedAsUsual ==
  /\ configDir = freshConfig
  /\ backupDir = IF pre.config.exists THEN pre.config ELSE pre.backup
  /\ Len(probed) = Len(ToolOrder)

\* C9: with --no-sample the sample-project directory stays as it was before
\* the run while a complete run leaves the target and backup directories as a
\* run without the flag does; without the flag a complete run leaves
\* deno.json, main.ts and main_test.ts in the sample-project directory.
C9_NoSample ==
  /\ (runs > 0 /\ "--no-sample" \in args) => projectDir = pre.project
  /\ installed => installedAsUsual
  /\ (installed /\ "--no-sample" \notin args) => samplePresent(projectDir)

\* A complete run with --no-sample that made a backup and left the absent
\* sample-project directory absent.
C9_Witness ==
  /\ installed /\ args = {"--no-sample"}
  /\ pre.config.exists /\ backupDir = pre.config
  /\ ~pre.project.exists /\ ~exists(projectDir)

\* C10 as stated: every error of a run is caught by the handler of run(),
\* which prints the "Setup failed" message, and ends the process with a
\* non-zero status; the unresolvable home directory is reported that way too.
C10_EveryErrorCaughtAtTopLevel ==
  thrownAt # "none"
    => /\ pc = "done" /\ exitCode # 0
       /\ handler = "run.catch"
       /\ out[Len(out)][1] = "Setup failed"

\* The completion report of printUsageInstructions has been printed.
reported == \E n \in 1..Len(out) : out[n][1] = "setup complete"

\* The backup path as the backup step of the current run leaves it.
backupAsMade == IF pre.config.exists THEN pre.config ELSE pre.backup

\* C11: when the write of the i-th entry, or the creation of its directory,
\* has failed, the entries before it are on disk with their content, no later
\* entry, no undo directory and nothing of the sample project has been
\* written, the backup made by this run is in place, no completion report
\* has been printed and the exit status is non-zero.
C11_NoRollback ==
  (pc = "done" /\ thrownAt = "createConfigFiles" /\ i >= 1)
    => /\ \A k \in 1..(i - 1) :
            contentAt(configDir, getConfigFiles[k].path) = {getConfigFiles[k].content}
       /\ \A k \in (i + 1)..Len(getConfigFiles) :
            contentAt(configDir, getConfigFiles[k].path) = {}
       /\ undoPath \notin configDir.dirs
       /\ projectDir = pre.project
       /\ backupDir = backupAsMade
       /\ ~reported
       /\ exitCode # 0

\* The write of the fifth entry failed, leaving a truncated file, in a run
\* that had moved an existing target directory to the backup path.
C11_Witness ==
  /\ pc = "done" /\ thrownAt = "createConfigFiles" /\ i = 5
  /\ contentAt(configDir, getConfigFiles[5].path) = {<<>>}
  /\ contentAt(configDir, getConfigFiles[4].path) = {getConfigFiles[4].content}
  /\ pre.config.exists /\ backupDir = pre.config
  /\ exitCode = 1

\* C12: when the removal of the old backup or the rename of the target
\* directory fails, the error reaches the handler of run(), the exit status is
\* non-zero, and the target and sample-project directories are as they were
\* before the run, no report printed; when it is the rename that fails after
\* an old backup was removed, the backup path is empty and the target
\* directory still holds its prior content.  The backup is never skipped
\* silently: a run that goes on past the backup step over a prior target
\* directory has moved it to the backup path.
C12_BackupFailsLoudly ==
  /\ thrownAt \in {"backupExistingConfig.remove", "backupExistingConfig.rename"}
       => /\ pc = "done" /\ exitCode # 0 /\ handler = "run.catch"
          /\ out[Len(out)][1] = "Setup failed"
          /\ configDir = pre.config
          /\ projectDir = pre.project
          /\ ~reported
  /\ (thrownAt = "backupExistingConfig.rename" /\ pre.backup.exists)
       => (backupDir = Absent /\ configDir = pre.config /\ configDir.exists)
  /\ (pc \in {"ensure", "files", "undo", "sample", "report"} /\ pre.config.exists)
       => backupDir = pre.config

\* The rename failed after the old backup, which held b.txt, had been removed.
C12_Witness ==
  /\ pc = "done" /\ thrownAt = "backupExistingConfig.rename"
  /\ contentAt(pre.backup, <<"b.txt">>) = {<<"older:b.txt">>}
  /\ backupDir = Absent
  /\ contentAt(configDir, <<"a.txt">>) = {<<"old:a.txt">>}

\* The "found" status lines printed so far, in order.
foundLines ==
  LET isFound(line) == line[1] = "found" IN SelectSeq(out, isFound)

\* C13: the probes of a run are of nvim, deno, git in that order; only the
\* last probe made can have failed, and then the run has ended in the error
\* that names that tool; the "found" lines printed are those of the tools
\* probed successfully, in order.
C13_FailFastInOrder ==
  /\ Len(probed) <= 3
  /\ \A k \in 1..Len(probed) : probed[k][1] = <<"nvim", "deno", "git">>[k]
  /\ \A k \in 1..(Len(probed) - 1) : probed[k][2] = "ok"
  /\ LET ok == {k \in 1..Len(probed) : probed[k][2] = "ok"}
     IN /\ Len(foundLines) = Cardinality(ok)
        /\ \A k \in ok : foundLines[k] = <<"found", probed[k][1]>>
  /\ someToolFailed
       => /\ pc = "done" /\ thrownAt = "checkPrerequisites" /\ exitCode # 0
          /\ out[Len(out)] = <<"Setup failed", "is not installed or not in PATH",
                               probed[Len(probed)][1]>>

\* nvim was found, deno could not be launched: the run ended there, with
\* one "found" line and git never probed.
C13_Witness ==
  /\ probed = <<(<<"nvim", "ok">>), <<"deno", "nolaunch">>>>
  /\ pc = "done"
  /\ foundLines = <<(<<"found", "nvim">>)>>
  /\ out[Len(out)][3] = "deno"

\* The "created" status lines of the config files printed so far, in order.
createdLines ==
  LET isCreated(line) == line[1] = "created" IN SelectSeq(out, isCreated)

\* The current run is an installation: main() went past the flag handling.
installing == runs > 0 /\ pc # "main" /\ args \cap {"--help", "-h", "--dry-run"} = {}

\* One step of a run in the order of run(): a step is entered only from the
\* step before it, when that one has completed; a loop advances by one entry;
\* a failing step ends the run with a non-zero status; the report ends it
\* with status zero.
inStepOrder ==
  \/ pc \in {"idle", "done"} /\ pc' = "main"
  \/ pc = "main" /\ pc' = "prereq" /\ i' = 1
  \/ pc = "main" /\ pc' = "done"
  \/ pc = "prereq" /\ pc' = "prereq" /\ i' = i + 1 /\ i' <= Len(ToolOrder)
  \/ pc = "prereq" /\ pc' = "backup" /\ i = Len(ToolOrder)
  \/ pc = "backup" /\ pc' = "rename" /\ pre.config.exists
  \/ pc = "backup" /\ pc' = "ensure" /\ ~pre.config.exists
  \/ pc = "rename" /\ pc' = "ensure"
  \/ pc = "ensure" /\ pc' = "files" /\ i' = 1
  \/ pc = "files" /\ pc' = "files" /\ i' = i + 1 /\ i' <= Len(getConfigFiles)
  \/ pc = "files" /\ pc' = "undo" /\ i = Len(getConfigFiles)
  \/ pc = "undo" /\ pc' = "sample" /\ i' = 0
  \/ pc = "sample" /\ pc' = "sample" /\ i' = i + 1 /\ i' <= Len(sampleFiles)
  \/ pc = "sample" /\ pc' = "report" /\ (sampleEnabled => i = Len(sampleFiles))
  \/ pc = "report" /\ pc' = "done" /\ exitCode' = 0 /\ thrownAt' = "none"
  \/ /\ pc \in {"prereq", "backup", "rename", "ensure", "files", "undo", "sample"}
     /\ pc' = "done" /\ exitCode' # 0 /\ thrownAt' # "none"
     /\ out' = Append(out, out'[Len(out')])
     /\ out'[Len(out')][1] = "Setup failed"

\* What has been done when a step is reached, and how a run ends.
stepsCompleted ==
  /\ \A k \in 1..Len(createdLines) :
       /\ k <= Len(getConfigFiles)
       /\ createdLines[k] = <<"created", getConfigFiles[k].description>>
       /\ contentAt(configDir, getConfigFiles[k].path) = {getConfigFiles[k].content}
  /\ pc = "files" => Len(createdLines) = i - 1
  /\ (installing /\ pc \notin {"prereq", "done"})
       => (Len(probed) = Len(ToolOrder) /\ ~someToolFailed)
  /\ pc \in {"ensure", "files", "undo", "sample", "report"} => backupDir = backupAsMade
  /\ pc \in {"undo", "sample", "report"} => populated(configDir)
  /\ pc \in {"sample", "report"} => undoPath \in configDir.dirs
  /\ pc \in {"prereq", "backup", "rename", "ensure", "files", "undo"}
       => projectDir = pre.project
  /\ (pc = "report" /\ sampleEnabled) => samplePresent(projectDir)
  /\ reported
       => /\ pc = "done" /\ thrownAt = "none" /\ exitCode = 0
          /\ Len(createdLines) = Len(getConfigFiles)
          /\ populated(configDir) /\ undoPath \in configDir.dirs
          /\ (sampleEnabled => samplePresent(projectDir))
  /\ (installing /\ pc = "done")
       => \/ reported /\ exitCode = 0 /\ thrownAt = "none"
          \/ ~reported /\ exitCode # 0 /\ thrownAt # "none"

\* C14: the steps of a run are taken in the order prerequisite check, backup,
\* ensureDir of the target directory, the config files in list order, the undo
\* directory, the sample project, the report; each starts when the one before
\* it has completed; the report is printed only after every earlier step
\* succeeded, and an ended run has either printed it and exited with status
\* zero or exited non-zero at the first failing step.
C14_StepOrder == []stepsCompleted /\ [][inStepOrder]_vars

\* A complete run that took every step: backup with removal of an old
\* backup, all config files, the sample project and the report.
C14_Witness ==
  /\ installed /\ reported /\ sampleEnabled
  /\ pre.config.exists /\ pre.backup.exists
  /\ Len(createdLines) = Len(getConfigFiles)
  /\ samplePresent(projectDir)

\* The report has told that the previous configuration was backed up.
backupNoticed ==
  \E n \in 1..Len(out) : out[n][1] = "previous configuration was backed up to"

====
